---- MODULE Spec2Model ----
(***************************************************************************)
(* Model of scripts/deforum_helpers/depth.py: the DepthModel facade, a     *)
(* class-wide lazy singleton (DepthModel._instance) around one primary     *)
(* depth model (Midas, Zoe or LeReS) and an optional AdaBins model.        *)
(*                                                                         *)
(* A facade object is a record.  The attributes that the code sets or      *)
(* deletes conditionally (zoe_depth, leres_depth, midas_depth,             *)
(* adabins_model) carry a "present" flag: hasattr and del act on it.       *)
(* The caller works on the object returned by the latest DepthModel(...)   *)
(* request, which is always DepthModel._instance (line 34).                *)
(***************************************************************************)
EXTENDS Integers, Sequences, FiniteSets

VARIABLES instance,   \* DepthModel._instance (line 18)
          last,       \* history: the last call, its arguments, what it found and ran
          hist,       \* history of the resident object since it was allocated
          calc        \* arguments and result of a function applied on its own

vars == <<instance, last, hist, calc>>

----------------------------------------------------------------------------
(* Bounds of the model *)

MaxDepthK == 1      \* depth values range over -1500*MaxDepthK .. 1500*MaxDepthK
MaxTensorLen == 2   \* number of elements of a depth tensor

(* Program constants *)

DepthMinInit == 1000     \* self.depth_min = 1000
DepthMaxInit == -1000    \* self.depth_max = -1000
LeresRes == 448          \* LeReSDepth(width=448, height=448, ...)
DefaultSize == 512       \* kwargs.get('Width', 512), kwargs.get('Height', 512)
WeightOne == 10          \* the weight 1.0; weights are counted in tenths

AlignOffset == 50        \* torch.subtract(50.0, depth_tensor)
AlignScale == 19         \* ... / 19.0

(* Inputs *)

Algorithms == {"Midas", "Zoe", "Leres"}
\* Width and Height are stored, compared for equality (line 26) and handed to
\* ZoeDepth: the default and one other value give every pattern of agreement
Sizes == {DefaultSize, 768}
Weights == {2, WeightOne}          \* 0.2 (the default of line 24) and 1.0
Devices == {"cuda", "cpu"}
DepthVals == {1500 * k : k \in (0 - MaxDepthK)..MaxDepthK}
\* depth tensors, flattened; to_image reads a tensor only through min() and
\* max(), so one tensor stands for all orderings of its elements
Tensors ==
  {t \in UNION {[1..n -> DepthVals] : n \in 1..MaxTensorLen} :
     \A i \in DOMAIN t : \A j \in DOMAIN t : i <= j => t[i] <= t[j]}

Min(a, b) == IF a <= b THEN a ELSE b
Max(a, b) == IF a >= b THEN a ELSE b

\* depth.min() and depth.max() of line 101
TensorMin(t) == CHOOSE v \in {t[i] : i \in DOMAIN t} : \A i \in DOMAIN t : v <= t[i]
TensorMax(t) == CHOOSE v \in {t[i] : i \in DOMAIN t} : \A i \in DOMAIN t : v >= t[i]

----------------------------------------------------------------------------
(* Facade objects *)

NoModel == [present |-> FALSE, width |-> 0, height |-> 0]

\* cls._instance = None
NoInstance == [exists |-> FALSE]

\* super().__new__(cls): an object on which no attribute has been set yet
NewObject ==
  [exists |-> TRUE,
   keep_in_vram |-> FALSE, Width |-> 0, Height |-> 0,
   depth_min |-> 0, depth_max |-> 0, device |-> "cpu",
   depth_algorithm |-> "Midas",
   zoe_depth |-> NoModel, leres_depth |-> NoModel, midas_depth |-> NoModel,
   adabins_model |-> FALSE, adabins_helper |-> FALSE,
   should_delete |-> FALSE]

\* hasattr(obj, name) for the conditionally set attributes
HasAttr(obj, name) ==
  CASE name = "zoe_depth" -> obj.zoe_depth.present
    [] name = "leres_depth" -> obj.leres_depth.present
    [] name = "midas_depth" -> obj.midas_depth.present
    [] name = "adabins_model" -> obj.adabins_model
    [] OTHER -> FALSE

\* the attribute the code dispatches to for self.depth_algorithm
PrimaryAttr(alg) ==
  IF alg = "Zoe" THEN "zoe_depth" ELSE IF alg = "Leres" THEN "leres_depth" ELSE "midas_depth"

----------------------------------------------------------------------------
(* _initialize, lines 36-55 *)

\* variant: keep_in_vram is not stored
InitFields_NoKeep(self, device, keep_in_vram, depth_algorithm, Width, Height) ==
  [self EXCEPT !.Width = Width,
               !.Height = Height,
               !.depth_min = DepthMinInit,
               !.depth_max = DepthMaxInit,
               !.device = device,
               !.depth_algorithm = depth_algorithm]

\* lines 37-43: the plain fields
InitFields(self, device, keep_in_vram, depth_algorithm, Width, Height) ==
  [self EXCEPT !.keep_in_vram = keep_in_vram,
               !.Width = Width,
               !.Height = Height,
               !.depth_min = DepthMinInit,
               !.depth_max = DepthMaxInit,
               !.device = device,
               !.depth_algorithm = depth_algorithm]

\* variant: the LeReS model sized by the request, like the Zoe model
InitPrimary_LeresSized(self) ==
  IF self.depth_algorithm = "Zoe"
    THEN [self EXCEPT !.zoe_depth =
            [present |-> TRUE, width |-> self.Width, height |-> self.Height]]
  ELSE IF self.depth_algorithm = "Leres"
    THEN [self EXCEPT !.leres_depth =
            [present |-> TRUE, width |-> self.Width, height |-> self.Height]]
  ELSE [self EXCEPT !.midas_depth = [present |-> TRUE, width |-> 0, height |-> 0]]

\* lines 45-50: exactly one primary model is constructed and assigned
InitPrimary(self) ==
  IF self.depth_algorithm = "Zoe"
    THEN [self EXCEPT !.zoe_depth =
            [present |-> TRUE, width |-> self.Width, height |-> self.Height]]
  ELSE IF self.depth_algorithm = "Leres"
    THEN [self EXCEPT !.leres_depth =
            [present |-> TRUE, width |-> LeresRes, height |-> LeresRes]]
  ELSE [self EXCEPT !.midas_depth = [present |-> TRUE, width |-> 0, height |-> 0]]

\* line 51: is an AdaBinsModel constructed
WantsAdabins(midas_weight) == midas_weight < WeightOne

\* lines 51-55: adabins_model is assigned only below weight 1.0; above, only
\* adabins_helper is cleared and an adabins_model attribute set earlier stays
InitSecondary(self, midas_weight) ==
  IF WantsAdabins(midas_weight)
    THEN [self EXCEPT !.adabins_model = TRUE, !.adabins_helper = TRUE]
    ELSE [self EXCEPT !.adabins_helper = FALSE]

Initialize(self, device, keep_in_vram, depth_algorithm, Width, Height, midas_weight) ==
  InitSecondary(
    InitPrimary(InitFields(self, device, keep_in_vram, depth_algorithm, Width, Height)),
    midas_weight)

----------------------------------------------------------------------------
(* __new__, lines 20-34 *)

\* variant: == in place of !=
model_switched_Same(inst, depth_algorithm) ==
  inst.exists /\ inst.depth_algorithm = depth_algorithm

\* line 25; cls._instance is None or an object (always truthy)
model_switched(inst, depth_algorithm) ==
  inst.exists /\ inst.depth_algorithm # depth_algorithm

\* variant: and in place of or
resolution_changed_Both(inst, Width, Height) ==
  inst.exists /\ (inst.Width # Width /\ inst.Height # Height)

\* line 26
resolution_changed(inst, Width, Height) ==
  inst.exists /\ (inst.Width # Width \/ inst.Height # Height)

\* line 28, second disjunct: the attribute asked for is 'midas_model'
TornDown(inst) == ~HasAttr(inst, "midas_model")

\* variant: the resolution is not looked at
NeedsNewInstance_NoResolution(inst, keep_in_vram, depth_algorithm, Width, Height) ==
  \/ ~inst.exists
  \/ (~keep_in_vram /\ TornDown(inst))
  \/ model_switched(inst, depth_algorithm)

\* line 28: a new object is allocated and initialized
NeedsNewInstance(inst, keep_in_vram, depth_algorithm, Width, Height) ==
  \/ ~inst.exists
  \/ (~keep_in_vram /\ TornDown(inst))
  \/ model_switched(inst, depth_algorithm)
  \/ resolution_changed(inst, Width, Height)

\* variant: should_delete is not looked at
NeedsReinit_Kept(inst, keep_in_vram) == keep_in_vram

\* variant: not keep_in_vram in place of keep_in_vram
NeedsReinit_NotKept(inst, keep_in_vram) == inst.should_delete /\ ~keep_in_vram

\* line 31: the resident object is initialized again in place
NeedsReinit(inst, keep_in_vram) == inst.should_delete /\ keep_in_vram

\* variant: the flag stored without the negation
ShouldDelete_Flipped(keep_in_vram) == keep_in_vram

\* line 33
ShouldDelete(keep_in_vram) == ~keep_in_vram

----------------------------------------------------------------------------
(* History records *)

\* the keyword arguments of a request that decide reuse
NoRequest == [valid |-> FALSE, keep |-> FALSE, alg |-> "Midas", W |-> 0, H |-> 0]

\* last: the call (op and arguments), what held when it was made and how it
\* compares with the call before (existed .. widened), what it ran (initialized ..)
\*   existed, pre_alg, size_differs: of the resident object before a request
\*   prev_valid, prev_keep, prev_same: of the request before a request
\*   prev_image: to_image had been called on this object before
\*   shrunk, widened: the bounds used compared with those its latest call used
\*   covers: the bounds used include the minimum and maximum of the tensor
\*   returned: the tensor predict returns, the primary model's or the blend
NoCall ==
  [op |-> "none", keep |-> FALSE, alg |-> "Midas", W |-> 0, H |-> 0,
   weight |-> WeightOne,
   existed |-> FALSE, pre_alg |-> "Midas", size_differs |-> FALSE,
   prev_valid |-> FALSE, prev_keep |-> FALSE, prev_same |-> FALSE,
   pre_deleted |-> FALSE,
   prev_image |-> FALSE, reinit_between |-> FALSE,
   shrunk |-> FALSE, widened |-> FALSE,
   initialized |-> FALSE, created |-> FALSE, raised |-> FALSE,
   primary_built |-> NoModel,
   adabins_constructed |-> FALSE, primary_predict |-> FALSE,
   adabins_predict |-> FALSE, adabins_ok |-> FALSE, blended |-> FALSE,
   adabins_moved |-> FALSE, adabins_deleted |-> FALSE,
   returned |-> "none", covers |-> FALSE,
   used_min |-> 0, used_max |-> 0]

\* hist.deleted: delete_model has completed on the resident object since it was
\*   last initialized
\* hist.image, img_min, img_max: to_image has been called on the resident
\*   object, and the bounds its latest call used
\* hist.reinit: _initialize has run on the resident object since that call
\* hist.requested: the latest request made
NoHistory ==
  [deleted |-> FALSE, image |-> FALSE, img_min |-> 0, img_max |-> 0, reinit |-> FALSE,
   requested |-> NoRequest]

\* the primary model the facade holds for its algorithm
PrimaryOf(obj) ==
  IF obj.depth_algorithm = "Zoe" THEN obj.zoe_depth
  ELSE IF obj.depth_algorithm = "Leres" THEN obj.leres_depth
  ELSE obj.midas_depth

\* calc is used by the specifications of single functions only
NoCalc == [stage |-> "none"]

Init ==
  /\ instance = NoInstance
  /\ last = NoCall
  /\ hist = NoHistory
  /\ calc = NoCalc

\* DepthModel(models_path, device, keep_in_vram=..., depth_algorithm=...,
\*            Width=..., Height=..., midas_weight=...)
Request(device, keep_in_vram, depth_algorithm, Width, Height, midas_weight) ==
  LET fresh == NeedsNewInstance(instance, keep_in_vram, depth_algorithm, Width, Height)
      again == ~fresh /\ NeedsReinit(instance, keep_in_vram)
      obj == IF fresh
               THEN Initialize(NewObject, device, keep_in_vram, depth_algorithm,
                               Width, Height, midas_weight)
             ELSE IF again
               THEN Initialize(instance, device, keep_in_vram, depth_algorithm,
                               Width, Height, midas_weight)
             ELSE instance
  IN /\ instance' = [obj EXCEPT !.should_delete = ShouldDelete(keep_in_vram)]
     /\ last' = [NoCall EXCEPT !.op = "request", !.keep = keep_in_vram,
                   !.alg = depth_algorithm, !.W = Width, !.H = Height,
                   !.weight = midas_weight,
                   !.existed = instance.exists,
                   !.pre_alg = IF instance.exists THEN instance.depth_algorithm
                               ELSE "Midas",
                   !.size_differs = IF instance.exists
                                      THEN <<instance.Width, instance.Height>>
                                             # <<Width, Height>>
                                      ELSE FALSE,
                   !.prev_valid = hist.requested.valid,
                   !.prev_keep = hist.requested.keep,
                   !.prev_same = /\ hist.requested.valid
                                 /\ hist.requested.alg = depth_algorithm
                                 /\ hist.requested.W = Width
                                 /\ hist.requested.H = Height,
                   !.pre_deleted = hist.deleted,
                   !.initialized = fresh \/ again,
                   !.created = fresh,
                   !.primary_built = IF fresh \/ again THEN PrimaryOf(obj) ELSE NoModel,
                   !.adabins_constructed = (fresh \/ again) /\ obj.adabins_helper]
     /\ hist' = LET req == [valid |-> TRUE, keep |-> keep_in_vram,
                            alg |-> depth_algorithm, W |-> Width, H |-> Height]
                IN IF fresh THEN [NoHistory EXCEPT !.requested = req]
                   ELSE IF again THEN [hist EXCEPT !.deleted = FALSE, !.reinit = TRUE,
                                                   !.requested = req]
                   ELSE [hist EXCEPT !.requested = req]
     /\ UNCHANGED calc

----------------------------------------------------------------------------
(* The methods, called on the object the latest request returned *)

\* variant: the weight is not looked at
UseAdabins_AnyWeight(self, midas_weight) == self.adabins_helper

\* line 58
UseAdabins(self, midas_weight) == midas_weight < WeightOne /\ self.adabins_helper

\* variant: a method skips the primary model when its attribute is not set
PrimaryMissing_Skipped(self) == FALSE

\* lines 62-67, 87-92, 110-117 read self.zoe_depth / leres_depth / midas_depth:
\* an AttributeError when the attribute of the algorithm is not set
PrimaryMissing(self) == ~HasAttr(self, PrimaryAttr(self.depth_algorithm))

\* variant: the flag AdaBins returns is not looked at
ShouldBlend_Always(use_adabins, adabins_ok) == use_adabins

\* lines 72-75: AdaBins is asked only if use_adabins, and the blend is done only
\* if the use_adabins it returns is true
ShouldBlend(use_adabins, adabins_ok) == use_adabins /\ adabins_ok

\* variant: the operands of the subtraction exchanged
Align_Swapped(depth_tensor) ==
  [i \in DOMAIN depth_tensor |-> depth_tensor[i] - AlignOffset]

\* line 80: torch.subtract(50.0, depth_tensor) / 19.0, elementwise; the result
\* is counted in units of 1/19
Align(depth_tensor) ==
  [i \in DOMAIN depth_tensor |-> AlignOffset - depth_tensor[i]]

\* the unit of a blended value: 1/(19*10), weights being tenths
BlendDen == AlignScale * WeightOne

\* line 81: depth_tensor * midas_weight + adabins_depth * (1.0 - midas_weight),
\* elementwise, in units of 1/BlendDen
Blend(aligned, adabins_depth, midas_weight) ==
  [i \in DOMAIN aligned |->
     aligned[i] * midas_weight + adabins_depth[i] * AlignScale * (WeightOne - midas_weight)]

\* blend_and_align_with_adabins(depth_tensor, adabins_depth, midas_weight),
\* lines 79-83; line 82 puts the tensor on self.device, its values unchanged.
\* self.depth_algorithm is not read.
blend_and_align_with_adabins(self, depth_tensor, adabins_depth, midas_weight) ==
  [values |-> Blend(Align(depth_tensor), adabins_depth, midas_weight),
   device |-> self.device]

\* predict(prev_img_cv2, midas_weight, half_precision), lines 57-77.
\* adabins_ok is the use_adabins that AdaBinsModel._instance.predict returns.
Predict(midas_weight, adabins_ok) ==
  LET use_adabins == UseAdabins(instance, midas_weight)
      raised == PrimaryMissing(instance)
  IN /\ instance.exists
     /\ instance' = instance
     /\ last' = [NoCall EXCEPT !.op = "predict", !.weight = midas_weight,
                   !.pre_deleted = hist.deleted,
                   !.raised = raised,
                   !.primary_predict = ~raised,
                   !.adabins_predict = ~raised /\ use_adabins,
                   !.adabins_ok = ~raised /\ use_adabins /\ adabins_ok,
                   !.blended = ~raised /\ ShouldBlend(use_adabins, adabins_ok),
                   !.returned = IF raised THEN "none"
                                ELSE IF ShouldBlend(use_adabins, adabins_ok)
                                  THEN "blended" ELSE "primary"]
     /\ hist' = hist
     /\ UNCHANGED calc

\* to(device), lines 85-96: the device field is assigned before the models move
To(device) ==
  LET raised == PrimaryMissing(instance)
  IN /\ instance.exists
     /\ instance' = [instance EXCEPT !.device = device]
     /\ last' = [NoCall EXCEPT !.op = "to",
                   !.pre_deleted = hist.deleted,
                   !.raised = raised,
                   !.adabins_moved = ~raised /\ HasAttr(instance, "adabins_model")]
     /\ hist' = hist
     /\ UNCHANGED calc

\* variant: the running minimum replaced by the tensor's own
WidenMin_Latest(depth_min, depth) == TensorMin(depth)

\* line 101
WidenMin(depth_min, depth) == Min(depth_min, TensorMin(depth))

\* variant: the running maximum is not updated
WidenMax_Kept(depth_max, depth) == depth_max

\* variant: the running maximum replaced by the tensor's own
WidenMax_Latest(depth_max, depth) == TensorMax(depth)

\* line 101
WidenMax(depth_max, depth) == Max(depth_max, TensorMax(depth))

\* line 102: denom = max(1e-8, depth_max - depth_min). The bounds and the
\* depths are integers here, so the difference is at least 1 or the
\* denominator is 1e-8, written 0.
Denominator(depth_min, depth_max) ==
  IF depth_max - depth_min >= 1 THEN depth_max - depth_min ELSE 0

\* line 103: (depth - depth_min) / denom * 255 for one element, as the fraction
\* num/den, or num/1e-8 when den is written 0
Normalized(d, depth_min, depth_max) ==
  [num |-> (d - depth_min) * 255, den |-> Denominator(depth_min, depth_max)]

\* line 104: astype(np.uint8), the integer part modulo 256; num/1e-8 is
\* num * 10^8, a multiple of 256
CastUint8(v) == IF v.den > 0 THEN (v.num \div v.den) % 256 ELSE 0

\* lines 103-104: every element normalized, repeated to 3 channels and cast
Pixels(depth, depth_min, depth_max) ==
  [i \in DOMAIN depth |->
     LET v == Normalized(depth[i], depth_min, depth_max)
     IN [value |-> v, rgb |-> <<CastUint8(v), CastUint8(v), CastUint8(v)>>]]

\* lines 101-104: the bounds to_image stores and the image it returns
ToImageResult(depth_min, depth_max, depth) ==
  LET lo == WidenMin(depth_min, depth)
      hi == WidenMax(depth_max, depth)
  IN [depth_min |-> lo, depth_max |-> hi, image |-> Pixels(depth, lo, hi)]

\* to_image(depth), lines 98-104
ToImage(depth) ==
  LET lo == WidenMin(instance.depth_min, depth)
      hi == WidenMax(instance.depth_max, depth)
  IN /\ instance.exists
     /\ instance' = [instance EXCEPT !.depth_min = lo, !.depth_max = hi]
     /\ last' = [NoCall EXCEPT !.op = "to_image",
                   !.pre_deleted = hist.deleted,
                   !.prev_image = hist.image,
                   !.reinit_between = hist.reinit,
                   !.shrunk = hist.image /\ (lo > hist.img_min \/ hi < hist.img_max),
                   !.widened = hist.image /\ (lo < hist.img_min \/ hi > hist.img_max),
                   !.covers = lo <= TensorMin(depth) /\ TensorMax(depth) <= hi,
                   !.used_min = lo, !.used_max = hi]
     /\ hist' = [hist EXCEPT !.image = TRUE, !.img_min = lo, !.img_max = hi,
                             !.reinit = FALSE]
     /\ UNCHANGED calc

\* save(filename, depth), lines 106-107: to_image(depth), and the image it
\* returns is written to the file
Save(depth) == ToImage(depth)

\* variant: the model is released but the attribute is not deleted
DeletePrimary_Keep(self) == self

\* lines 110-117: the primary model attribute is deleted
DeletePrimary(self) ==
  IF self.depth_algorithm = "Zoe" THEN [self EXCEPT !.zoe_depth = NoModel]
  ELSE IF self.depth_algorithm = "Leres" THEN [self EXCEPT !.leres_depth = NoModel]
  ELSE [self EXCEPT !.midas_depth = NoModel]

\* delete_model(), lines 109-122: adabins_model.delete_model() is called but
\* the adabins_model attribute is kept
DeleteModel ==
  LET raised == PrimaryMissing(instance)
  IN /\ instance.exists
     /\ instance' = IF raised THEN instance ELSE DeletePrimary(instance)
     /\ last' = [NoCall EXCEPT !.op = "delete_model",
                   !.pre_deleted = hist.deleted,
                   !.raised = raised,
                   !.adabins_deleted = ~raised /\ HasAttr(instance, "adabins_model")]
     /\ hist' = IF raised THEN hist ELSE [hist EXCEPT !.deleted = TRUE]
     /\ UNCHANGED calc

Next ==
  \/ \E device \in Devices, keep_in_vram \in BOOLEAN, depth_algorithm \in Algorithms,
        Width \in Sizes, Height \in Sizes, midas_weight \in Weights :
       Request(device, keep_in_vram, depth_algorithm, Width, Height, midas_weight)
  \/ \E midas_weight \in Weights, adabins_ok \in BOOLEAN : Predict(midas_weight, adabins_ok)
  \/ \E device \in Devices : To(device)
  \/ \E depth \in Tensors : ToImage(depth)
  \/ \E depth \in Tensors : Save(depth)
  \/ DeleteModel

Spec == Init /\ [][Next]_vars

----------------------------------------------------------------------------
(* blend_and_align_with_adabins applied on its own *)

\* primary depths (50 - d is 38, 19 and 0), AdaBins depths and weights in tenths
BlendDepths == {12, 31, AlignOffset}
BlendAdabins == {0, 1}
BlendWeights == {0, 2, 5, WeightOne}

\* a facade initialized for depth_algorithm with an AdaBins model
BlendSelf(depth_algorithm, device) ==
  Initialize(NewObject, device, TRUE, depth_algorithm, DefaultSize, DefaultSize, 2)

InitBlend ==
  /\ instance = NoInstance
  /\ last = NoCall
  /\ hist = NoHistory
  /\ \E n \in 1..MaxTensorLen :
       \E depth_tensor \in [1..n -> BlendDepths], adabins_depth \in [1..n -> BlendAdabins],
          midas_weight \in BlendWeights, depth_algorithm \in Algorithms :
         calc = [stage |-> "args", alg |-> depth_algorithm,
                 depth_tensor |-> depth_tensor, adabins_depth |-> adabins_depth,
                 midas_weight |-> midas_weight,
                 result |-> [values |-> <<>>, device |-> "cpu"]]

BlendCall ==
  /\ calc.stage = "args"
  /\ calc' = [calc EXCEPT
                !.stage = "blend",
                !.result = blend_and_align_with_adabins(
                             BlendSelf(calc.alg, "cuda"), calc.depth_tensor,
                             calc.adabins_depth, calc.midas_weight)]
  /\ UNCHANGED <<instance, last, hist>>

NextBlend == BlendCall

SpecBlend == InitBlend /\ [][NextBlend]_vars

----------------------------------------------------------------------------
(* to_image applied to a facade's running bounds on their own *)

\* depths inside and outside [-1000, 1000], listed up to the order of elements
ImageDepths == {750 * k : k \in (0 - 2 * MaxDepthK)..(2 * MaxDepthK)}
ImageTensors ==
  {t \in UNION {[1..n -> ImageDepths] : n \in 1..MaxTensorLen} :
     \A i \in DOMAIN t : \A j \in DOMAIN t : i <= j => t[i] <= t[j]}

\* the bounds as _initialize leaves them, lines 40-41
InitImage ==
  /\ instance = NoInstance
  /\ last = NoCall
  /\ hist = NoHistory
  /\ calc = [stage |-> "initialized", depth |-> <<>>,
             depth_min |-> DepthMinInit, depth_max |-> DepthMaxInit, image |-> <<>>]

\* to_image(depth) on the facade with these bounds
ImageCall(depth) ==
  LET r == ToImageResult(calc.depth_min, calc.depth_max, depth)
  IN /\ calc' = [stage |-> "image", depth |-> depth,
                 depth_min |-> r.depth_min, depth_max |-> r.depth_max,
                 image |-> r.image]
     /\ UNCHANGED <<instance, last, hist>>

\* _initialize on the facade, lines 40-41
ImageReinit ==
  /\ calc.stage = "image"
  /\ calc' = [stage |-> "initialized", depth |-> <<>>,
              depth_min |-> DepthMinInit, depth_max |-> DepthMaxInit, image |-> <<>>]
  /\ UNCHANGED <<instance, last, hist>>

NextImage ==
  \/ \E depth \in ImageTensors : ImageCall(depth)
  \/ ImageReinit

SpecImage == InitImage /\ [][NextImage]_vars

----------------------------------------------------------------------------
(* Properties *)

IsRequest == last.op = "request"
IsToImage == last.op = "to_image"

\* the request names the configuration the resident object records
SameConfig == last.existed /\ last.pre_alg = last.alg /\ ~last.size_differs

\* the request repeats the algorithm, Width and Height of the request before it
SameAsPrevRequest == last.prev_valid /\ last.prev_same

\* how many of the three primary-model attributes the object holds
PrimaryCount(obj) ==
  Cardinality({a \in {"zoe_depth", "leres_depth", "midas_depth"} : HasAttr(obj, a)})

\* _initialize ran and the facade returned holds the model of its algorithm
Rebuilt ==
  /\ last.initialized
  /\ last.primary_built.present
  /\ instance.depth_algorithm = last.alg
  /\ HasAttr(instance, PrimaryAttr(last.alg))

\* C1: a request that follows delete_model on the resident facade runs
\* _initialize and returns a facade that holds its primary model, for either
\* keep_in_vram and also when the configuration is the resident one.
C1_RequestAfterDeleteRebuilds ==
  (IsRequest /\ last.pre_deleted) => Rebuilt

\* C2: of two consecutive requests with the same depth_algorithm, Width and
\* Height, both with keep_in_vram=True, the second returns the same object and
\* does not run _initialize.
C2_KeptRequestReuses ==
  (IsRequest /\ SameAsPrevRequest /\ last.prev_keep /\ last.keep)
    => (~last.initialized /\ ~last.created /\ ~last.primary_built.present)

C2_Witness ==
  /\ IsRequest /\ SameAsPrevRequest /\ last.prev_keep /\ last.keep
  /\ ~last.initialized
  /\ PrimaryOf(instance).present

\* C3: a request that names a depth_algorithm other than the resident one
\* constructs a new primary model for the requested algorithm, whatever
\* keep_in_vram is on this request and was on the one before.
C3_AlgorithmSwitchRebuilds ==
  (IsRequest /\ last.existed /\ last.pre_alg # last.alg) => Rebuilt

C3_Witness ==
  /\ IsRequest /\ last.existed /\ last.pre_alg # last.alg
  /\ last.keep /\ last.prev_keep /\ ~last.size_differs
  /\ Rebuilt

\* C4: with Midas or Zoe resident, a request whose Width or Height differs
\* from the resident one constructs a new primary model and the facade
\* returned records the requested Width and Height, for both keep_in_vram.
C4_ResolutionChangeRebuilds ==
  (IsRequest /\ last.existed /\ last.pre_alg \in {"Midas", "Zoe"} /\ last.size_differs)
    => (Rebuilt /\ instance.Width = last.W /\ instance.Height = last.H)

C4_Witness ==
  /\ IsRequest /\ last.existed /\ last.pre_alg \in {"Midas", "Zoe"}
  /\ last.size_differs /\ last.pre_alg = last.alg
  /\ last.keep /\ last.prev_keep
  /\ Rebuilt /\ instance.Width = last.W /\ instance.Height = last.H

\* a request that differs from the resident LeReS configuration only in Width
\* or Height, keep_in_vram=True on it and on the request before
LeresResized ==
  /\ IsRequest /\ last.existed
  /\ last.pre_alg = "Leres" /\ last.alg = "Leres"
  /\ last.size_differs
  /\ last.keep /\ last.prev_valid /\ last.prev_keep

\* every LeReS model is constructed with width=448 and height=448
LeresBuiltAt448 ==
  (IsRequest /\ last.initialized /\ last.alg = "Leres")
    => last.primary_built = [present |-> TRUE, width |-> LeresRes, height |-> LeresRes]

\* C5 as claimed: the LeReS model is always constructed at 448x448, and a
\* request that differs from the resident LeReS configuration only in Width or
\* Height leaves the resident model in place without reconstructing it.
C5_LeresUnaffectedBySize ==
  LeresBuiltAt448 /\ (LeresResized => (~last.initialized /\ ~last.created))

\* C5 as amended: the LeReS model is always constructed at 448x448 whatever
\* Width and Height are requested; a request that differs from the resident
\* LeReS configuration only in Width or Height allocates a new facade,
\* constructs a new LeReS model (again at 448x448) and records the requested
\* Width and Height.
C5_LeresRebuiltAt448 ==
  /\ LeresBuiltAt448
  /\ LeresResized =>
       /\ last.created /\ Rebuilt
       /\ instance.leres_depth = [present |-> TRUE, width |-> LeresRes, height |-> LeresRes]
       /\ instance.Width = last.W /\ instance.Height = last.H

C5_Witness ==
  /\ LeresResized /\ Rebuilt
  /\ instance.Width # LeresRes
  /\ instance.leres_depth.width = LeresRes

\* C6: a request to a resident facade runs _initialize if and only if
\* (a) keep_in_vram=False and the primary model was torn down by delete_model,
\* or (b) the depth_algorithm differs from the resident one, or (c) the Width
\* or Height differs from the resident one, or (d) the request before had
\* keep_in_vram=False; otherwise it leaves the resident model alone.
C6_ReinitializesExactlyWhen ==
  (IsRequest /\ last.existed) =>
    (last.initialized <=>
       \/ (~last.keep /\ last.pre_deleted)
       \/ last.pre_alg # last.alg
       \/ last.size_differs
       \/ ~last.prev_keep)

\* C7: after a request with keep_in_vram=False the next request always runs
\* _initialize, also for the same depth_algorithm, Width and Height and
\* whatever its own keep_in_vram.
C7_NotKeptIsStale ==
  (IsRequest /\ last.prev_valid /\ ~last.prev_keep) => Rebuilt

C7_Witness ==
  /\ IsRequest /\ last.prev_valid /\ ~last.prev_keep
  /\ SameConfig /\ last.keep /\ ~last.created
  /\ Rebuilt

\* C8 as claimed: once a facade exists it holds exactly one primary model, the
\* one of its depth_algorithm, and at most one AdaBins model, after any calls.
C8_ExactlyOnePrimary ==
  instance.exists =>
    (PrimaryCount(instance) = 1 /\ HasAttr(instance, PrimaryAttr(instance.depth_algorithm)))

\* C8 as amended: once a facade exists it holds at most one primary model and
\* at most one AdaBins model: exactly one primary model, the one of its
\* depth_algorithm, unless delete_model has completed on it since it was last
\* initialized, and then none.
C8_OnePrimaryUnlessDeleted ==
  instance.exists =>
    /\ PrimaryCount(instance) <= 1
    /\ hist.deleted => PrimaryCount(instance) = 0
    /\ ~hist.deleted =>
         (PrimaryCount(instance) = 1
            /\ HasAttr(instance, PrimaryAttr(instance.depth_algorithm)))

C8_Witness ==
  /\ instance.exists /\ hist.deleted /\ PrimaryCount(instance) = 0
  /\ last.op = "delete_model" /\ ~last.raised /\ last.adabins_deleted

\* C9: a request with midas_weight=1.0 that initializes the facade constructs
\* no AdaBinsModel, and predict with midas_weight=1.0 calls neither the AdaBins
\* predict nor blend_and_align_with_adabins, whatever requests came before.
C9_WeightOneSkipsAdabins ==
  /\ (IsRequest /\ last.weight = WeightOne) => ~last.adabins_constructed
  /\ (last.op = "predict" /\ last.weight = WeightOne)
       => (~last.adabins_predict /\ ~last.blended)

C9_Witness ==
  /\ last.op = "predict" /\ last.weight = WeightOne
  /\ last.primary_predict
  /\ instance.adabins_helper /\ HasAttr(instance, "adabins_model")

\* C10 as claimed: of two successive to_image calls on the same facade object,
\* whatever calls come between them, the second uses a depth_min no greater
\* and a depth_max no smaller than the first.
C10_ImageBoundsNeverShrink ==
  (IsToImage /\ last.prev_image)
    => ~last.shrunk

\* C10 as amended: of two successive to_image calls on the same facade object
\* between which _initialize has not run on that object (any predict, to,
\* delete_model and reusing requests may come between them), the second uses a
\* depth_min no greater and a depth_max no smaller than the first.
C10_ImageBoundsWidenUntilReinit ==
  (IsToImage /\ last.prev_image /\ ~last.reinit_between)
    => ~last.shrunk

C10_Witness ==
  /\ IsToImage /\ last.prev_image /\ ~last.reinit_between
  /\ last.widened
  /\ last.used_min < 0 /\ last.used_max > 0

\* C11: blend_and_align_with_adabins(D, A, w) is, elementwise,
\* ((50 - D) / 19) * w + A * (1 - w), whichever primary algorithm is resident:
\* in units of 1/190 and w in tenths, (50 - D) * w + 19 * A * (10 - w).
\* D=[50,50], A=[0,1], w=0.5 gives [0, 0.5]; w=1 gives (50 - D)/19; w=0 gives A.
C11_BlendFormula ==
  calc.stage = "blend" =>
    LET D == calc.depth_tensor
        A == calc.adabins_depth
        w == calc.midas_weight
        B == calc.result.values
    IN /\ DOMAIN B = DOMAIN D
       /\ \A i \in DOMAIN D : B[i] = (50 - D[i]) * w + 19 * A[i] * (10 - w)
       /\ (D = <<50, 50>> /\ A = <<0, 1>> /\ w = 5) => B = <<0, 95>>
       /\ w = 10 => \A i \in DOMAIN D : 19 * B[i] = 190 * (50 - D[i])
       /\ w = 0 => \A i \in DOMAIN D : B[i] = 190 * A[i]

C11_Witness ==
  /\ calc.stage = "blend"
  /\ calc.alg = "Leres"
  /\ calc.depth_tensor = <<50, 50>> /\ calc.adabins_depth = <<0, 1>>
  /\ calc.midas_weight = 5
  /\ calc.result.values = <<0, 95>>

\* C12: when predict asks AdaBins (midas_weight < 1.0, a secondary model held)
\* and AdaBins reports non-use, predict raises nothing, does not blend and
\* returns the primary model's tensor; it returns the blend only when AdaBins
\* reports success.
C12_AdabinsNonUseReturnsPrimary ==
  /\ (last.op = "predict" /\ last.adabins_predict /\ ~last.adabins_ok)
       => (~last.raised /\ ~last.blended /\ last.returned = "primary")
  /\ (last.op = "predict" /\ last.returned = "blended")
       => (last.adabins_predict /\ last.adabins_ok /\ last.blended)

C12_Witness ==
  /\ last.op = "predict" /\ last.weight < WeightOne
  /\ last.adabins_predict /\ ~last.adabins_ok
  /\ last.returned = "primary"

\* the running bounds of the resident facade
Bounds(obj) == <<obj.depth_min, obj.depth_max>>

\* C13: depth_min/depth_max change in two ways only: to_image widens them to
\* include the minimum and maximum of its tensor, and _initialize resets them
\* to (1000, -1000); predict, to, delete_model and a request that does not
\* initialize leave them unchanged.
C13_BoundsChangeOnlyByImageAndInit ==
  [][ /\ (last'.op \in {"predict", "to", "delete_model"})
           => Bounds(instance') = Bounds(instance)
      /\ (last'.op = "request" /\ ~last'.initialized)
           => Bounds(instance') = Bounds(instance)
      /\ (last'.op = "request" /\ last'.initialized)
           => Bounds(instance') = <<1000, -1000>>
      /\ (last'.op = "to_image")
           => /\ instance'.depth_min <= instance.depth_min
              /\ instance'.depth_max >= instance.depth_max
              /\ last'.covers
              /\ Bounds(instance') = <<last'.used_min, last'.used_max>>
    ]_vars

C13_Witness ==
  /\ last.op \in {"predict", "to", "delete_model"}
  /\ hist.image /\ ~hist.reinit
  /\ Bounds(instance) = <<hist.img_min, hist.img_max>>
  /\ instance.depth_min < 0 /\ instance.depth_max > 1000

\* C14: after every request the facade returned has should_delete equal to
\* NOT keep_in_vram of that request and keep_in_vram equal to the request's,
\* also when the request did not initialize.
C14_FlagsFollowRequest ==
  IsRequest =>
    /\ instance.should_delete = ~last.keep
    /\ instance.keep_in_vram = last.keep

C14_Witness ==
  /\ IsRequest /\ ~last.initialized /\ last.keep
  /\ ~instance.should_delete /\ instance.keep_in_vram

\* C15: after every initialization, if midas_weight < 1.0 the facade holds an
\* AdaBins model and a non-null adabins_helper; otherwise it holds no reference
\* to a secondary model: adabins_helper is None and no adabins_model of an
\* earlier initialization is left for to and delete_model to reach.
C15_SecondaryClearedAtWeightOne ==
  (IsRequest /\ last.initialized) =>
    IF last.weight < WeightOne
      THEN HasAttr(instance, "adabins_model") /\ instance.adabins_helper
      ELSE ~HasAttr(instance, "adabins_model") /\ ~instance.adabins_helper

\* C17: after every request the facade returned is DepthModel._instance and
\* records the depth_algorithm, Width and Height of that request, also when it
\* was reused without being initialized.
C17_FacadeRecordsRequest ==
  IsRequest =>
    /\ instance.exists
    /\ instance.depth_algorithm = last.alg
    /\ instance.Width = last.W
    /\ instance.Height = last.H

C17_Witness ==
  /\ IsRequest /\ ~last.initialized /\ ~last.created
  /\ instance.depth_algorithm = last.alg
  /\ instance.Width = last.W /\ instance.Height = last.H
  /\ instance.Width # instance.Height

\* C18: midas_weight and device are not part of the cache key: a request with
\* keep_in_vram=True and the depth_algorithm, Width and Height of the request
\* before it, which also had keep_in_vram=True, leaves the facade unchanged
\* (same object, device, secondary model, depth_min and depth_max) whatever its
\* midas_weight and device.
C18_WeightAndDeviceNotInKey ==
  [][ (last'.op = "request" /\ last'.keep
         /\ last'.prev_valid /\ last'.prev_keep /\ last'.prev_same)
        => (instance' = instance /\ ~last'.created /\ ~last'.initialized)
    ]_vars

C18_Witness ==
  /\ IsRequest /\ last.keep /\ last.prev_valid /\ last.prev_keep /\ last.prev_same
  /\ last.weight = WeightOne
  /\ instance.adabins_helper /\ HasAttr(instance, "adabins_model")
  /\ hist.image /\ Bounds(instance) = <<hist.img_min, hist.img_max>>

\* C19: after delete_model and until the facade is initialized again, every
\* predict, to and delete_model call on it raises and none completes, for each
\* of the three algorithms.
C19_DeletedFacadeRaises ==
  (last.op \in {"predict", "to", "delete_model"} /\ last.pre_deleted) =>
    /\ last.raised
    /\ ~last.primary_predict /\ last.returned = "none"
    /\ ~last.adabins_moved
    /\ ~last.adabins_deleted
    /\ PrimaryCount(instance) = 0

C19_Witness ==
  /\ last.op = "delete_model" /\ last.pre_deleted /\ last.raised
  /\ instance.depth_algorithm = "Zoe"
  /\ HasAttr(instance, "adabins_model")

\* C16: for every depth tensor and every history of to_image calls, constant
\* tensors and values outside [-1000, 1000] included, every normalized value
\* (depth - depth_min) / max(1e-8, depth_max - depth_min) * 255 lies in
\* [0, 255] and the three channels of each pixel are equal.
C16_NormalizedInRange ==
  calc.stage = "image" =>
    \A i \in DOMAIN calc.image :
      LET v == calc.image[i].value
          rgb == calc.image[i].rgb
      IN /\ v.num >= 0
         /\ v.den > 0 => v.num <= 255 * v.den
         /\ v.den = 0 => v.num = 0
         /\ rgb[1] = rgb[2] /\ rgb[2] = rgb[3]
         /\ rgb[1] \in 0..255

\* a constant tensor on freshly initialized bounds: depth_max = depth_min and
\* the denominator is 1e-8
C16_Witness ==
  /\ calc.stage = "image"
  /\ Len(calc.depth) = MaxTensorLen
  /\ calc.depth_min = calc.depth_max
  /\ calc.image[1].value.den = 0
  /\ calc.image[1].rgb = <<0, 0, 0>>

====
